---- MODULE Spec2Model ----
(***************************************************************************)
(* A model of dolfyn/adp/rotate.py: the rotation of ADP velocity data      *)
(* between the beam, instrument (or ship) and earth frames.                *)
(*                                                                         *)
(* Numbers.  numpy's floating point numbers are modelled by exact numbers  *)
(* of the field Q(sqrt 2): <<p, q, d>> stands for (p + q*sqrt(2)) / d,     *)
(* kept in lowest terms with d > 0.  sqrt 2 is needed for the entry        *)
(* d = a / 2**0.5 of the beam matrix.  Angles are integers in degrees; the *)
(* trigonometric functions are exact on the multiples of 90 and on the two *)
(* angles of the 3-4-5 triangle, written 37 (sin = 3/5, cos = 4/5) and 53  *)
(* (sin = 4/5, cos = 3/5), and on their sums.                              *)
(***************************************************************************)
EXTENDS Integers, Sequences, FiniteSets, TLC

\* Number of time steps of a record (the last axis of vel, the orientation series).
NT == 2
\* Number of depth bins of vel (its middle axis).
NBins == 1
\* Number of calls made on one record.
MaxCalls == 2

TimeIdx == 1..NT
BinIdx == 1..NBins

----------------------------------------------------------------------------
(* Exact arithmetic in Q(sqrt 2) *)

Abs(x) == IF x < 0 THEN -x ELSE x

RECURSIVE GCD(_, _)
GCD(a, b) == IF b = 0 THEN a ELSE GCD(b, a % b)

Norm(p, q, d) ==
  LET g == GCD(GCD(Abs(p), Abs(q)), Abs(d))
      s == IF d < 0 THEN -g ELSE g
  IN  <<p \div s, q \div s, d \div s>>

QInt(n) == <<n, 0, 1>>
QRat(n, d) == Norm(n, 0, d)
QZero == QInt(0)
QOne == QInt(1)
QAdd(x, y) == Norm(x[1] * y[3] + y[1] * x[3], x[2] * y[3] + y[2] * x[3], x[3] * y[3])
QNeg(x) == <<-x[1], -x[2], x[3]>>
QSub(x, y) == QAdd(x, QNeg(y))
QMul(x, y) == Norm(x[1] * y[1] + 2 * x[2] * y[2], x[1] * y[2] + x[2] * y[1], x[3] * y[3])
\* 1 / ((p + q r) / d) = d (p - q r) / (p^2 - 2 q^2), r = sqrt 2
QInv(x) == Norm(x[3] * x[1], -(x[3] * x[2]), x[1] * x[1] - 2 * x[2] * x[2])
QDiv(x, y) == QMul(x, QInv(y))
\* 2 ** 0.5
Sqrt2 == <<0, 1, 1>>

RECURSIVE QSum(_, _)
\* The sum of f[i] over the finite set S of indices.
QSum(f, S) ==
  IF S = {} THEN QZero
  ELSE LET i == CHOOSE x \in S : TRUE IN QAdd(f[i], QSum(f, S \ {i}))

----------------------------------------------------------------------------
(* Trigonometry, exact on the model's angles *)

\* <<cos, sin>> of a remainder angle in 0..89.
BaseCosSin(rem) ==
  CASE rem = 0 -> <<QOne, QZero>>
    [] rem = 37 -> <<QRat(4, 5), QRat(3, 5)>>
    [] rem = 53 -> <<QRat(3, 5), QRat(4, 5)>>

RECURSIVE Quarter(_, _)
\* cs turned by k quarter turns.
Quarter(cs, k) == IF k = 0 THEN cs ELSE Quarter(<<QNeg(cs[2]), cs[1]>>, k - 1)

CosSinDeg(x) == LET m == x % 360 IN Quarter(BaseCosSin(m % 90), m \div 90)
\* np.cos(x * deg2rad), np.sin(x * deg2rad), np.tan(x * deg2rad)
CosDeg(x) == CosSinDeg(x)[1]
SinDeg(x) == CosSinDeg(x)[2]
TanDeg(x) == QDiv(SinDeg(x), CosDeg(x))

\* The integer square root of a perfect square.
ISqrt(n) == CHOOSE s \in 0..n : s * s = n
\* np.cos(np.arctan(t)) and np.sin(np.arctan(t)) for a rational t = n/d:
\* 1 / sqrt(1 + t^2) and t / sqrt(1 + t^2).
CosArctan(t) == QRat(t[3], ISqrt(t[1] * t[1] + t[3] * t[3]))
SinArctan(t) == QRat(t[1], ISqrt(t[1] * t[1] + t[3] * t[3]))

----------------------------------------------------------------------------
(* Python dictionaries and strings *)

\* A function on 1..n as the tuple of its values (an array held in memory).
Arr(f) == f \o <<>>

Has(d, k) == k \in DOMAIN d
Get(d, k, default) == IF k \in DOMAIN d THEN d[k] ELSE default
Put(d, k, v) == IF k \in DOMAIN d THEN [d EXCEPT ![k] = v] ELSE (k :> v) @@ d
Pop(d, k) == [x \in DOMAIN d \ {k} |-> d[x]]

\* str.lower() on the strings of the model.
Lower(s) ==
  CASE s = "BEAM" -> "beam"
    [] s = "ENU" -> "enu"
    [] s = "Signature" -> "signature"
    [] s = "Workhorse" -> "workhorse"
    [] OTHER -> s

----------------------------------------------------------------------------
(* Matrices: a matrix is a tuple of rows *)

RemoveAt(s, i) == Arr([k \in 1..(Len(s) - 1) |-> IF k < i THEN s[k] ELSE s[k + 1]])
Minor(M, i, j) == Arr([r \in 1..(Len(M) - 1) |-> RemoveAt(M[IF r < i THEN r ELSE r + 1], j)])

RECURSIVE Det(_)
Det(M) ==
  IF Len(M) = 1 THEN M[1][1]
  ELSE QSum(Arr([j \in 1..Len(M) |->
                   LET t == QMul(M[1][j], Det(Minor(M, 1, j)))
                   IN  IF j % 2 = 1 THEN t ELSE QNeg(t)]),
            1..Len(M))

\* np.linalg.inv(M) of a non-singular M: the adjugate over the determinant.
MatInv(M) ==
  LET dt == Det(M)
  IN  Arr([i \in 1..Len(M) |-> Arr([j \in 1..Len(M) |->
         LET c == QDiv(Det(Minor(M, j, i)), dt)
         IN  IF (i + j) % 2 = 0 THEN c ELSE QNeg(c)])])

IntMat(M) == Arr([i \in 1..Len(M) |-> Arr([j \in 1..Len(M[i]) |-> QInt(M[i][j])])])

----------------------------------------------------------------------------
(* calc_beam_rotmatrix(theta, convex), theta in degrees (degrees=True) *)

calc_beam_rotmatrix(theta, convex) ==
  LET c == IF convex = FALSE THEN QInt(-1) ELSE QInt(1)
      a == QDiv(QOne, QMul(QInt(2), SinDeg(theta)))
      b == QDiv(QOne, QMul(QInt(4), CosDeg(theta)))
      d == QDiv(a, Sqrt2)
      ca == QMul(c, a)
      nca == QNeg(ca)
      nd == QNeg(d)
  IN  << <<ca, nca, QZero, QZero>>,
         <<QZero, QZero, nca, ca>>,
         <<b, b, b, b>>,
         <<d, d, nd, nd>> >>

----------------------------------------------------------------------------
(* beam2inst(adcpo, reverse, force) *)

\* beam2inst_raises without the check of the reverse call.
beam2inst_raises_forward_only(props, reverse, force) ==
  ~force /\ ~reverse /\ Lower(props["coord_sys"]) # "beam"

\* The coordinate-system check of beam2inst: TRUE when the call raises.
beam2inst_raises(props, reverse, force) ==
  /\ ~force
  /\ \/ ~reverse /\ Lower(props["coord_sys"]) # "beam"
     \/ reverse /\ props["coord_sys"] # "inst"

\* The matrix beam2inst takes: config.rotmat, else config['TransMatrix'],
\* else the matrix of the beam geometry.
beam2inst_rotmat(config) ==
  IF Has(config, "rotmat") THEN config["rotmat"]
  ELSE IF Has(config, "TransMatrix") THEN config["TransMatrix"]
  ELSE calc_beam_rotmatrix(config["beam_angle"], config["beam_pattern"] = "convex")

Transpose(M) == Arr([i \in 1..Len(M) |-> Arr([j \in 1..Len(M) |-> M[j][i]])])

\* beam2inst_matrix with the transpose in the place of the inverse.
beam2inst_matrix_transposed(config, reverse) ==
  IF reverse THEN Transpose(beam2inst_rotmat(config)) ELSE beam2inst_rotmat(config)

\* The matrix beam2inst multiplies by: the inverse when reversing.
beam2inst_matrix(config, reverse) ==
  IF reverse THEN MatInv(beam2inst_rotmat(config)) ELSE beam2inst_rotmat(config)

\* np.einsum('ij,jkl->ikl', rotmat, vel)
einsum_ij_jkl(rotmat, vel) ==
  Arr([i \in 1..Len(rotmat) |-> Arr([k \in BinIdx |-> Arr([l \in TimeIdx |->
     QSum(Arr([j \in 1..Len(vel) |-> QMul(rotmat[i][j], vel[j][k][l])]),
          1..Len(vel))])])])

\* The frame beam2inst leaves the data in.
beam2inst_cs(reverse) == IF reverse THEN "beam" ELSE "inst"

beam2inst(adcpo, reverse, force) ==
  IF beam2inst_raises(adcpo["props"], reverse, force)
  THEN [adcpo |-> adcpo, result |-> "ValueError"]
  ELSE IF reverse /\ Det(beam2inst_rotmat(adcpo["config"])) = QZero
  THEN [adcpo |-> adcpo, result |-> "LinAlgError"]
  ELSE LET rotmat == beam2inst_matrix(adcpo["config"], reverse)
           cs == beam2inst_cs(reverse)
           a1 == Put(adcpo, "vel", einsum_ij_jkl(rotmat, adcpo["vel"]))
       IN  [adcpo |-> Put(a1, "props", Put(adcpo["props"], "coord_sys", cs)),
            result |-> "ok"]

----------------------------------------------------------------------------
(* inst2earth(adcpo, reverse, fixed_orientation, force) *)

\* The coordinate-system check of inst2earth: TRUE when the call raises.
inst2earth_raises(props, reverse, force) ==
  /\ ~force
  /\ \/ ~reverse /\ props["coord_sys"] \notin {"inst", "ship"}
     \/ reverse /\ Lower(props["coord_sys"]) \notin {"earth", "enu"}

\* folds_declination that does not look at the declination_in_heading flag.
folds_declination_unflagged(props, reverse) ==
  ~reverse /\ Has(props, "declination")

\* Whether the call folds the declination into the heading.
folds_declination(props, reverse) ==
  /\ ~reverse
  /\ Has(props, "declination")
  /\ ~Get(props, "declination_in_heading", FALSE)

\* adcpo.heading += adcpo.props['declination'], and the flag that records it.
fold_declination(adcpo) ==
  LET o == adcpo["orient"]
      pr == adcpo["props"]
      h == Arr([t \in TimeIdx |-> o.heading[t] + pr["declination"]])
  IN  Put(Put(adcpo, "orient", [o EXCEPT !.heading = h]),
          "props", Put(pr, "declination_in_heading", TRUE))

is_signature(props) == Lower(props["inst_model"]) = "signature"

\* r, in degrees, after the corrections of the instrument model.
roll_used(orient, props, config) ==
  Arr([t \in TimeIdx |->
     IF is_signature(props) THEN orient.roll[t]
     ELSE IF props["coord_sys"] = "ship" /\ config["use_pitchroll"] = "yes" THEN 0
     ELSE IF config["orientation"] = "up" THEN orient.roll[t] + 180
     ELSE orient.roll[t]])

\* tan(p): p = arctan(tan(pitch) * cos(r)) with r the roll as measured, and
\* p = 0 for ship data that uses the ship's pitch and roll.
pitch_tan(orient, props, config) ==
  Arr([t \in TimeIdx |->
     IF ~is_signature(props) /\ props["coord_sys"] = "ship"
        /\ config["use_pitchroll"] = "yes"
     THEN QZero
     ELSE QMul(TanDeg(orient.pitch[t]), CosDeg(orient.roll[t]))])

\* step_rotmat with the sign of the entry [1, 0] lost.
step_rotmat_sign(ch, sh, cr, sr, cp, sp) ==
  << << QAdd(QMul(ch, cr), QMul(QMul(sh, sp), sr)),
        QMul(sh, cp),
        QSub(QMul(ch, sr), QMul(QMul(sh, sp), cr)) >>,
     << QAdd(QMul(sh, cr), QMul(QMul(ch, sp), sr)),
        QMul(ch, cp),
        QSub(QNeg(QMul(sh, sr)), QMul(QMul(ch, sp), cr)) >>,
     << QNeg(QMul(cp, sr)),
        sp,
        QMul(cp, cr) >> >>

\* The matrix of one time step from the cosines and sines of the heading,
\* the roll and the pitch (lines 144-152).
step_rotmat(ch, sh, cr, sr, cp, sp) ==
  << << QAdd(QMul(ch, cr), QMul(QMul(sh, sp), sr)),
        QMul(sh, cp),
        QSub(QMul(ch, sr), QMul(QMul(sh, sp), cr)) >>,
     << QAdd(QNeg(QMul(sh, cr)), QMul(QMul(ch, sp), sr)),
        QMul(ch, cp),
        QSub(QNeg(QMul(sh, sr)), QMul(QMul(ch, sp), cr)) >>,
     << QNeg(QMul(cp, sr)),
        sp,
        QMul(cp, cr) >> >>

\* rotmat[i][j][t], the matrix of each time step.
inst2earth_rotmat(orient, props, config) ==
  LET r == roll_used(orient, props, config)
      pt == pitch_tan(orient, props, config)
      m == Arr([t \in TimeIdx |->
                  step_rotmat(CosDeg(orient.heading[t]), SinDeg(orient.heading[t]),
                              CosDeg(r[t]), SinDeg(r[t]),
                              CosArctan(pt[t]), SinArctan(pt[t]))])
  IN  Arr([i \in 1..3 |-> Arr([j \in 1..3 |-> Arr([t \in TimeIdx |-> m[t][i][j]])])])

\* rotmat.mean(-1), kept with a time axis: every time step holds the mean.
mean_rotmat(rotmat) ==
  Arr([i \in 1..3 |-> Arr([j \in 1..3 |->
     LET m == QDiv(QSum(rotmat[i][j], TimeIdx), QInt(NT))
     IN  Arr([t \in TimeIdx |-> m])])])

\* The signature model supports only orient_up = 4 (ZUP).
orientation_unsupported(orient, props) ==
  is_signature(props) /\ \E t \in TimeIdx : orient.orient_up[t] # 4

\* fixed_used that keeps the argument of the call.
fixed_used_argument(props, reverse, fixed_orientation) == fixed_orientation

\* The value of fixed_orientation after lines 167-173.
fixed_used(props, reverse, fixed_orientation) ==
  IF reverse THEN Get(props, "inst2earth:fixed", fixed_orientation)
  ELSE fixed_orientation

\* inst2earth_cs that forgets the reverse call.
inst2earth_cs_always_earth(reverse) == "earth"

\* The frame inst2earth leaves the data in.
inst2earth_cs(reverse) == IF reverse THEN "inst" ELSE "earth"

\* props after lines 167-173 and 181.
inst2earth_props(props, reverse, fixed_orientation) ==
  Put(IF reverse THEN Pop(props, "inst2earth:fixed")
      ELSE Put(props, "inst2earth:fixed", fixed_orientation),
      "coord_sys", inst2earth_cs(reverse))

\* entry without the exchange of 'ij' for 'ji' in reverse.
entry_untransposed(rotmat, reverse, i, j, t) == rotmat[i][j][t]

\* The entry (i, j) at time t of the matrix einsum multiplies by:
\* 'ij' forward, 'ji' in reverse.
entry(rotmat, reverse, i, j, t) ==
  IF reverse THEN rotmat[j][i][t] ELSE rotmat[i][j][t]

\* vel with vel[:3] = np.einsum(ess, rotmat, vel[:3]); the other channels stay.
rotate_vel(rotmat, reverse, vel) ==
  Arr([i \in 1..Len(vel) |->
     IF i > 3 THEN vel[i]
     ELSE Arr([d \in BinIdx |-> Arr([t \in TimeIdx |->
             QSum(Arr([j \in 1..3 |->
                         QMul(entry(rotmat, reverse, i, j, t), vel[j][d][t])]),
                  1..3)])])])

\* rotate_bt_vel that applies the matrix itself in reverse too.
rotate_bt_vel_forward(rotmat, reverse, bt) ==
  Arr([i \in 1..Len(bt) |->
     IF i > 3 THEN bt[i]
     ELSE Arr([t \in TimeIdx |->
             QSum(Arr([j \in 1..3 |-> QMul(rotmat[i][j][t], bt[j][t])]), 1..3)])])

\* bt_vel with bt_vel[:3] = np.einsum(ess.replace('d', ''), rotmat, bt_vel[:3]).
rotate_bt_vel(rotmat, reverse, bt) ==
  Arr([i \in 1..Len(bt) |->
     IF i > 3 THEN bt[i]
     ELSE Arr([t \in TimeIdx |->
             QSum(Arr([j \in 1..3 |->
                         QMul(entry(rotmat, reverse, i, j, t), bt[j][t])]),
                  1..3)])])

inst2earth(adcpo, reverse, fixed_orientation, force) ==
  IF inst2earth_raises(adcpo["props"], reverse, force)
  THEN [adcpo |-> adcpo, result |-> "ValueError", fixed |-> fixed_orientation]
  ELSE
    LET a1 == IF folds_declination(adcpo["props"], reverse)
              THEN fold_declination(adcpo) ELSE adcpo
        rotmat == inst2earth_rotmat(a1["orient"], a1["props"], a1["config"])
    IN  IF orientation_unsupported(a1["orient"], a1["props"])
        THEN [adcpo |-> a1, result |-> "Exception", fixed |-> fixed_orientation]
        ELSE
          LET fo == fixed_used(a1["props"], reverse, fixed_orientation)
              rm == IF fo THEN mean_rotmat(rotmat) ELSE rotmat
              a2 == Put(a1, "vel", rotate_vel(rm, reverse, a1["vel"]))
              a3 == IF Has(a2, "bt_vel")
                    THEN Put(a2, "bt_vel", rotate_bt_vel(rm, reverse, a2["bt_vel"]))
                    ELSE a2
          IN  [adcpo |-> Put(a3, "props",
                             inst2earth_props(a1["props"], reverse, fixed_orientation)),
               result |-> "ok", fixed |-> fo]

----------------------------------------------------------------------------
(* inst2earth_heading(adpo) *)

\* np.exp(-1j * h) for h in degrees: <<cos h, -sin h>>.
exp_neg_i(h) == <<CosDeg(h), QNeg(SinDeg(h))>>

inst2earth_heading(adpo) ==
  LET pr == adpo["props"]
      h0 == adpo["orient"].heading
      h1 == Arr([t \in TimeIdx |->
               IF Has(pr, "heading_offset") THEN h0[t] + pr["heading_offset"] ELSE h0[t]])
      h2 == Arr([t \in TimeIdx |->
               IF Has(pr, "declination") THEN h1[t] + pr["declination"] ELSE h1[t]])
  IN  Arr([t \in TimeIdx |-> exp_neg_i(h2[t])])

----------------------------------------------------------------------------
(* The state: one record, the calls made on it *)

\* adcpo: the ADP record: vel, bt_vel (optional), orient, props, config.
\* hist: the calls made on the record, in order: each with its arguments,
\*   how it ended (result), the value fixed_orientation had when it ended
\*   (fixed) and what it returned (ret).
\* adcpo0: a history variable, the record as it was before the first call.
VARIABLES adcpo, hist, adcpo0

vars == <<adcpo, hist, adcpo0>>

\* The records the calls start from: their parts first.
VelOnes ==
  << [d \in BinIdx |-> [t \in TimeIdx |-> QInt(1)]],
     [d \in BinIdx |-> [t \in TimeIdx |-> QInt(0)]],
     [d \in BinIdx |-> [t \in TimeIdx |-> QInt(0)]],
     [d \in BinIdx |-> [t \in TimeIdx |-> QInt(2)]] >>
VelRamp == [c \in 1..4 |-> [d \in BinIdx |-> [t \in TimeIdx |-> QInt(c * t + d - 3)]]]
BtVel == [c \in 1..4 |-> [t \in TimeIdx |-> QInt(c + t - 2)]]
NoBt == [x \in {} |-> 0]
WithBt == [bt_vel |-> BtVel]

OrientUpZUP == [t \in TimeIdx |-> 4]
OrientUpMixed == [t \in TimeIdx |-> IF t = NT THEN 0 ELSE 4]

\* Heading 90, level: the orientation of the spec's concrete scenario.
SeriesLevel ==
  [heading |-> [t \in TimeIdx |-> 90],
   pitch |-> [t \in TimeIdx |-> 0],
   roll |-> [t \in TimeIdx |-> 0]]
\* An orientation that turns, pitches and rolls over the record.
SeriesMoving ==
  [heading |-> [t \in TimeIdx |-> 90 * t],
   pitch |-> [t \in TimeIdx |-> IF t % 2 = 1 THEN 37 ELSE -37],
   roll |-> [t \in TimeIdx |-> 90 * (t - 1)]]

Orient(s, u) ==
  [heading |-> s.heading, pitch |-> s.pitch, roll |-> s.roll, orient_up |-> u]

\* The optional entries of props: the declination with its flag, the heading offset.
NoProps == [x \in {} |-> 0]
Declination == [declination |-> 90]
DeclinationUnfolded == [declination |-> 90, declination_in_heading |-> FALSE]
HeadingOffset == [heading_offset |-> 180]

Props(cs, im, extra) == [coord_sys |-> cs, inst_model |-> im] @@ extra

\* Matrices a configuration may carry instead of the beam geometry.
RotmatOverride ==
  IntMat(<< <<2, -2, 0, 0>>, <<0, 0, -2, 2>>, <<1, 1, 1, 1>>, <<1, 1, -1, -1>> >>)
TransMatrixOverride ==
  IntMat(<< <<1, 0, 0, 1>>, <<0, 1, 0, 0>>, <<0, 0, 2, 0>>, <<0, 0, 0, 1>> >>)

Convex37 == [beam_angle |-> 37, beam_pattern |-> "convex"]
GeometrySet ==
  { Convex37,
    [beam_angle |-> 53, beam_pattern |-> "concave"],
    [beam_angle |-> 37, beam_pattern |-> "concave"],
    [beam_angle |-> 53, beam_pattern |-> "convex"],
    [beam_angle |-> 37, beam_pattern |-> "convex", TransMatrix |-> TransMatrixOverride],
    [beam_angle |-> 37, beam_pattern |-> "convex", TransMatrix |-> TransMatrixOverride,
     rotmat |-> RotmatOverride] }

Config(o, u, g) == [orientation |-> o, use_pitchroll |-> u] @@ g

Record(v, o, p, c, bt) == [vel |-> v, orient |-> o, props |-> p, config |-> c] @@ bt

CoordSysSet == {"beam", "inst", "ship", "earth", "BEAM", "ENU"}
ModelSet == {"Workhorse", "Signature"}

\* Every frame tag, both models, supported and unsupported orientation flags,
\* with and without a declination.
FrameRecords ==
  { Record(VelRamp, Orient(SeriesMoving, u), Props(cs, im, e),
           Config("down", "no", Convex37), WithBt) :
      cs \in CoordSysSet, im \in ModelSet, u \in {OrientUpZUP, OrientUpMixed},
      e \in {NoProps, Declination} }

\* Instrument and ship data under every static configuration.
OrientationRecords ==
  { Record(VelOnes, Orient(s, OrientUpZUP), Props(cs, im, e),
           Config(o, u, Convex37), NoBt) :
      cs \in {"inst", "ship"}, im \in ModelSet, s \in {SeriesLevel, SeriesMoving},
      o \in {"up", "down"}, u \in {"yes", "no"}, e \in {NoProps, Declination} }

\* Beam and instrument data under every beam geometry.
GeometryRecords ==
  { Record(v, Orient(SeriesLevel, OrientUpZUP), Props(cs, "Workhorse", NoProps),
           Config("down", "no", g), NoBt) :
      v \in {VelOnes, VelRamp}, cs \in {"beam", "inst"}, g \in GeometrySet }

\* Instrument data with every combination of heading corrections.
HeadingRecords ==
  { Record(VelRamp, Orient(s, OrientUpZUP), Props("inst", "Workhorse", e @@ ho),
           Config("down", "no", Convex37), WithBt) :
      s \in {SeriesLevel, SeriesMoving},
      e \in {NoProps, Declination, DeclinationUnfolded},
      ho \in {NoProps, HeadingOffset} }

RecordSet == FrameRecords \cup OrientationRecords \cup GeometryRecords \cup HeadingRecords

Init ==
  /\ adcpo \in RecordSet
  /\ adcpo0 = adcpo
  /\ hist = <<>>

Beam2Inst ==
  /\ Len(hist) < MaxCalls
  /\ \E reverse \in BOOLEAN, force \in BOOLEAN :
       \E out \in {beam2inst(adcpo, reverse, force)} :
           /\ adcpo' = out.adcpo
           /\ hist' = Append(hist,
                        [op |-> "beam2inst", reverse |-> reverse,
                         fixed_orientation |-> FALSE, force |-> force,
                         result |-> out.result, fixed |-> FALSE, ret |-> <<>>])
  /\ UNCHANGED adcpo0

Inst2Earth ==
  /\ Len(hist) < MaxCalls
  /\ \E reverse \in BOOLEAN, fixed_orientation \in BOOLEAN, force \in BOOLEAN :
       \E out \in {inst2earth(adcpo, reverse, fixed_orientation, force)} :
           /\ adcpo' = out.adcpo
           /\ hist' = Append(hist,
                        [op |-> "inst2earth", reverse |-> reverse,
                         fixed_orientation |-> fixed_orientation, force |-> force,
                         result |-> out.result, fixed |-> out.fixed, ret |-> <<>>])
  /\ UNCHANGED adcpo0

Inst2EarthHeading ==
  /\ Len(hist) < MaxCalls
  /\ hist' = Append(hist,
               [op |-> "inst2earth_heading", reverse |-> FALSE,
                fixed_orientation |-> FALSE, force |-> FALSE,
                result |-> "ok", fixed |-> FALSE, ret |-> inst2earth_heading(adcpo)])
  /\ UNCHANGED <<adcpo, adcpo0>>

Next == Beam2Inst \/ Inst2Earth \/ Inst2EarthHeading

Spec == Init /\ [][Next]_vars

----------------------------------------------------------------------------
(* The claims *)

\* A step that makes a call, and the call it makes.
Stepped == Len(hist') = Len(hist) + 1
Call == hist'[Len(hist')]
Rotations == {"beam2inst", "inst2earth"}

CoordSys == adcpo["props"]["coord_sys"]
CoordSys0 == adcpo0["props"]["coord_sys"]
Heading == adcpo["orient"].heading
Heading0 == adcpo0["orient"].heading

\* The frame a call requires of the record, as the documentation states it.
FrameAccepted(op, reverse, tag) ==
  CASE op = "beam2inst" /\ ~reverse -> Lower(tag) = "beam"
    [] op = "beam2inst" /\ reverse -> tag = "inst"
    [] op = "inst2earth" /\ ~reverse -> tag \in {"inst", "ship"}
    [] op = "inst2earth" /\ reverse -> Lower(tag) \in {"earth", "enu"}
    [] OTHER -> TRUE

\* C1: a call of beam2inst or inst2earth without force on a record whose
\* coord_sys is not the frame the call requires raises ValueError and leaves
\* the whole record (vel, bt_vel, the orientation series, props) as it was.
C1_FailedPreconditionLeavesRecord ==
  [][(Stepped /\ Call.op \in Rotations /\ ~Call.force
        /\ ~FrameAccepted(Call.op, Call.reverse, CoordSys))
       => (Call.result = "ValueError" /\ adcpo' = adcpo)]_vars

\* The spec's example: beam2inst on instrument data has failed, nothing changed.
C1_Witness ==
  /\ Len(hist) = 1
  /\ hist[1].op = "beam2inst" /\ ~hist[1].reverse /\ ~hist[1].force
  /\ hist[1].result = "ValueError"
  /\ CoordSys0 = "inst"
  /\ adcpo = adcpo0

TargetFrame(op, reverse) ==
  CASE op = "beam2inst" /\ ~reverse -> "inst"
    [] op = "beam2inst" /\ reverse -> "beam"
    [] op = "inst2earth" /\ ~reverse -> "earth"
    [] op = "inst2earth" /\ reverse -> "inst"

KnownFrames == {"beam", "inst", "ship", "earth"}
ForwardSteps == {<<"beam", "inst">>, <<"inst", "earth">>, <<"ship", "earth">>}
ReverseSteps == {<<"inst", "beam">>, <<"earth", "inst">>}

\* C2: a successful call leaves coord_sys at the target frame of the call;
\* a known frame tag stays a known one; no call sets 'ship'; and a successful
\* call without force moves the tag one step along beam -> inst (or ship) ->
\* earth, or one step back in reverse.
C2_CoordSysIsTargetFrame ==
  [][Stepped =>
       /\ (Call.op \in Rotations /\ Call.result = "ok")
            => CoordSys' = TargetFrame(Call.op, Call.reverse)
       /\ CoordSys \in KnownFrames => CoordSys' \in KnownFrames
       /\ CoordSys' = "ship" => CoordSys = "ship"
       /\ (Call.op \in Rotations /\ Call.result = "ok" /\ ~Call.force
             /\ CoordSys \in KnownFrames)
            => <<CoordSys, CoordSys'>> \in
                 (IF Call.reverse THEN ReverseSteps ELSE ForwardSteps)]_vars

\* Beam data taken to the earth frame by the two forward calls.
C2_Witness ==
  /\ Len(hist) = 2
  /\ hist[1].op = "beam2inst" /\ hist[2].op = "inst2earth"
  /\ \A k \in 1..2 : hist[k].result = "ok" /\ ~hist[k].reverse /\ ~hist[k].force
  /\ CoordSys0 = "beam"
  /\ CoordSys = "earth"

HasDeclination0 ==
  /\ Has(adcpo0["props"], "declination")
  /\ ~Get(adcpo0["props"], "declination_in_heading", FALSE)

\* The heading series with the declination added once.
HeadingFolded0 == [t \in TimeIdx |-> Heading0[t] + adcpo0["props"]["declination"]]

\* C3: on a record with a declination whose declination_in_heading flag
\* starts unset or false, a forward inst2earth call that passes its frame
\* check while the flag is unset adds the declination to the heading and sets
\* the flag; every other call leaves the heading as it is; so the heading is
\* the sensor's heading until then and the sensor's heading plus the
\* declination, once, ever after.
C3_DeclinationFoldedOnce ==
  [][(Stepped /\ HasDeclination0) =>
       /\ IF /\ Call.op = "inst2earth" /\ ~Call.reverse
             /\ (Call.force \/ FrameAccepted("inst2earth", FALSE, CoordSys))
             /\ ~Get(adcpo["props"], "declination_in_heading", FALSE)
          THEN /\ Heading' = [t \in TimeIdx |-> Heading[t] + adcpo["props"]["declination"]]
               /\ adcpo'["props"]["declination_in_heading"] = TRUE
          ELSE Heading' = Heading
       /\ IF Get(adcpo'["props"], "declination_in_heading", FALSE)
          THEN Heading' = HeadingFolded0
          ELSE Heading' = Heading0]_vars

\* Two forward calls have been made on instrument data with a declination:
\* the heading holds the declination once.
C3_Witness ==
  /\ Len(hist) = 2
  /\ HasDeclination0 /\ CoordSys0 = "inst"
  /\ \A k \in 1..2 : hist[k].op = "inst2earth" /\ ~hist[k].reverse /\ hist[k].result = "ok"
  /\ ~hist[1].force /\ hist[2].force
  /\ Heading = HeadingFolded0
  /\ Heading # Heading0

\* C4: a successful forward inst2earth stores its fixed_orientation argument
\* under 'inst2earth:fixed'; a successful reverse call works with the stored
\* value when there is one and with its own argument otherwise (it rotates by
\* the time-averaged matrix exactly when that value is true), and leaves the
\* key out of props.
C4_FixedOrientationBookkeeping ==
  [][(Stepped /\ Call.op = "inst2earth" /\ Call.result = "ok") =>
       IF ~Call.reverse
       THEN /\ Has(adcpo'["props"], "inst2earth:fixed")
            /\ adcpo'["props"]["inst2earth:fixed"] = Call.fixed_orientation
       ELSE LET used == IF Has(adcpo["props"], "inst2earth:fixed")
                        THEN adcpo["props"]["inst2earth:fixed"]
                        ELSE Call.fixed_orientation
                rotmat == inst2earth_rotmat(adcpo["orient"], adcpo["props"],
                                            adcpo["config"])
            IN  /\ Call.fixed = used
                /\ adcpo'["vel"] = rotate_vel(IF used THEN mean_rotmat(rotmat) ELSE rotmat,
                                              TRUE, adcpo["vel"])
                /\ ~Has(adcpo'["props"], "inst2earth:fixed")]_vars

\* A reverse call has worked with the value the forward call stored, which
\* is not the value the reverse call was given.
C4_Witness ==
  /\ Len(hist) = 2
  /\ \A k \in 1..2 : hist[k].op = "inst2earth" /\ hist[k].result = "ok"
  /\ ~hist[1].reverse /\ hist[1].fixed_orientation
  /\ hist[2].reverse /\ ~hist[2].fixed_orientation /\ hist[2].fixed
  /\ ~Has(adcpo["props"], "inst2earth:fixed")

Vel == adcpo["vel"]
Vel0 == adcpo0["vel"]
BtVelOf(a) == Get(a, "bt_vel", <<>>)

\* The first call was a successful forward inst2earth in non-fixed mode and
\* the second a successful reverse inst2earth.
Inst2EarthRoundTrip ==
  /\ Len(hist) = 2
  /\ \A k \in 1..2 : hist[k].op = "inst2earth" /\ hist[k].result = "ok"
  /\ ~hist[1].reverse /\ ~hist[1].fixed_orientation
  /\ hist[2].reverse

\* Ship data of a model other than the signature whose configuration says
\* use_pitchroll = 'yes': the forward call works with zero pitch and roll.
ShipPitchRoll0 ==
  /\ CoordSys0 = "ship"
  /\ adcpo0["config"]["use_pitchroll"] = "yes"
  /\ ~is_signature(adcpo0["props"])

\* C5 as claimed: for every record in the 'inst' or the 'ship' frame, under
\* every static configuration, a forward inst2earth in non-fixed mode and
\* then a reverse inst2earth give back vel and bt_vel.
C5_RoundTripEveryConfiguration ==
  (Inst2EarthRoundTrip /\ CoordSys0 \in {"inst", "ship"})
    => (Vel = Vel0 /\ BtVelOf(adcpo) = BtVelOf(adcpo0))

\* C5, amended: the same for every record in the 'inst' frame, and for the
\* records in the 'ship' frame whose pitch and roll the forward call does not
\* set to zero (use_pitchroll other than 'yes', or the signature model).
C5_RoundTripSameMatrix ==
  (Inst2EarthRoundTrip /\ CoordSys0 \in {"inst", "ship"} /\ ~ShipPitchRoll0)
    => (Vel = Vel0 /\ BtVelOf(adcpo) = BtVelOf(adcpo0))

\* A round trip of ship data with a turning, pitching and rolling instrument:
\* the forward call changed vel and the reverse call has restored it.
C5_Witness ==
  /\ Inst2EarthRoundTrip
  /\ CoordSys0 = "ship" /\ ~ShipPitchRoll0
  /\ adcpo0["orient"].pitch # [t \in TimeIdx |-> 0]
  /\ inst2earth(adcpo0, FALSE, FALSE, FALSE).adcpo["vel"] # Vel0
  /\ Vel = Vel0

\* The first call was a successful forward beam2inst on beam data and the
\* second a successful reverse beam2inst.
Beam2InstRoundTrip ==
  /\ Len(hist) = 2
  /\ \A k \in 1..2 : hist[k].op = "beam2inst" /\ hist[k].result = "ok" /\ ~hist[k].force
  /\ ~hist[1].reverse
  /\ hist[2].reverse

MatMul(A, B) ==
  Arr([i \in 1..Len(A) |-> Arr([j \in 1..Len(A) |->
     QSum(Arr([k \in 1..Len(A) |-> QMul(A[i][k], B[k][j])]), 1..Len(A))])])
Identity(n) == Arr([i \in 1..n |-> Arr([j \in 1..n |-> IF i = j THEN QOne ELSE QZero])])

\* C6: a forward beam2inst and then a reverse beam2inst give back vel and
\* the 'beam' tag; the matrix of the reverse call times the matrix of the
\* forward call is the identity, and it is not the transpose of that matrix.
C6_Beam2InstRoundTrip ==
  Beam2InstRoundTrip =>
    /\ Vel = Vel0
    /\ CoordSys = "beam"
    /\ MatMul(beam2inst_matrix(adcpo["config"], TRUE),
              beam2inst_matrix(adcpo["config"], FALSE)) = Identity(4)
    /\ beam2inst_matrix(adcpo["config"], TRUE)
         # Transpose(beam2inst_matrix(adcpo["config"], FALSE))

\* A round trip under a concave beam geometry: the forward call changed vel
\* and the reverse call has restored it.
C6_Witness ==
  /\ Beam2InstRoundTrip
  /\ ~Has(adcpo["config"], "rotmat") /\ ~Has(adcpo["config"], "TransMatrix")
  /\ adcpo["config"]["beam_pattern"] = "concave"
  /\ beam2inst(adcpo0, FALSE, FALSE).adcpo["vel"] # Vel0
  /\ Vel = Vel0

\* C7 as claimed: inst2earth on a signature record whose orient_up series
\* holds a value other than 4 ends in an error and leaves the record as it
\* was: vel, bt_vel, the heading series and every entry of props.
C7_UnsupportedOrientationLeavesRecord ==
  [][(Stepped /\ Call.op = "inst2earth"
        /\ orientation_unsupported(adcpo["orient"], adcpo["props"]))
       => (Call.result \in {"ValueError", "Exception"} /\ adcpo' = adcpo)]_vars

\* The matrix a successful inst2earth step works with, [i][j][t]: that of the
\* step's orientation, or its mean over time in fixed mode; transposed in
\* reverse.
MeanOver(series) == QDiv(QSum(series, TimeIdx), QInt(NT))
StepMatrix ==
  LET rotmat == inst2earth_rotmat(adcpo'["orient"], adcpo["props"], adcpo["config"])
  IN  Arr([i \in 1..3 |-> Arr([j \in 1..3 |->
        LET e == IF Call.reverse THEN rotmat[j][i] ELSE rotmat[i][j]
            m == MeanOver(e)
        IN  Arr([t \in TimeIdx |-> IF Call.fixed THEN m ELSE e[t]])])])
Dot3(a1, a2, a3, b1, b2, b3) == QAdd(QAdd(QMul(a1, b1), QMul(a2, b2)), QMul(a3, b3))

\* C8: a successful inst2earth call writes to the first three channels of
\* vel the product of its matrix (of each time step, or the mean in fixed
\* mode; transposed in reverse) with those three channels, and leaves the
\* fourth channel; bt_vel, when there is one, gets the same with the same
\* matrix; when there is none, none is made.
C8_ThreeChannelsRotated ==
  [][(Stepped /\ Call.op = "inst2earth" /\ Call.result = "ok") =>
       \E m \in {StepMatrix} :
         /\ Len(adcpo'["vel"]) = Len(adcpo["vel"])
         /\ \A i \in 4..Len(adcpo["vel"]) : adcpo'["vel"][i] = adcpo["vel"][i]
         /\ \A i \in 1..3, d \in BinIdx, t \in TimeIdx :
              adcpo'["vel"][i][d][t] =
                Dot3(m[i][1][t], m[i][2][t], m[i][3][t],
                     adcpo["vel"][1][d][t], adcpo["vel"][2][d][t], adcpo["vel"][3][d][t])
         /\ Has(adcpo', "bt_vel") <=> Has(adcpo, "bt_vel")
         /\ Has(adcpo, "bt_vel") =>
              /\ \A i \in 4..Len(adcpo["bt_vel"]) :
                   adcpo'["bt_vel"][i] = adcpo["bt_vel"][i]
              /\ \A i \in 1..3, t \in TimeIdx :
                   adcpo'["bt_vel"][i][t] =
                     Dot3(m[i][1][t], m[i][2][t], m[i][3][t],
                          adcpo["bt_vel"][1][t], adcpo["bt_vel"][2][t],
                          adcpo["bt_vel"][3][t])]_vars

\* A reverse call has rotated vel and bt_vel and left their fourth channels.
C8_Witness ==
  /\ Len(hist) = 1
  /\ hist[1].op = "inst2earth" /\ hist[1].result = "ok" /\ hist[1].reverse
  /\ Has(adcpo, "bt_vel")
  /\ \E i \in 1..3 : Vel[i] # Vel0[i]
  /\ \E i \in 1..3 : adcpo["bt_vel"][i] # adcpo0["bt_vel"][i]
  /\ Vel[4] = Vel0[4]
  /\ adcpo["bt_vel"][4] = adcpo0["bt_vel"][4]

\* The matrix of the spec's concrete scenario.
ScenarioMatrix == IntMat(<< <<0, 1, 0>>, <<-1, 0, 0>>, <<0, 0, 1>> >>)

\* A successful forward inst2earth step, and the time steps at which the
\* matrix is built from heading 90 (the heading the call works with, the
\* declination folded in), pitch 0 and roll 0.
ForwardInst2Earth ==
  Stepped /\ Call.op = "inst2earth" /\ Call.result = "ok" /\ ~Call.reverse
ScenarioAt(t) ==
  /\ adcpo'["orient"].heading[t] = 90
  /\ adcpo["orient"].pitch[t] = 0
  /\ adcpo["orient"].roll[t] = 0

\* The matrix of the step at time t is the scenario's, and, where the call
\* rotates with that matrix (every time step on its own, or a record in the
\* scenario at every time step), velocity (1,0,0) becomes (0,-1,0).
ScenarioHolds(rotmat, t) ==
  /\ \A i \in 1..3, j \in 1..3 : rotmat[i][j][t] = ScenarioMatrix[i][j]
  /\ (~Call.fixed \/ \A s \in TimeIdx : ScenarioAt(s)) =>
       \A d \in BinIdx :
         (/\ adcpo["vel"][1][d][t] = QInt(1)
          /\ adcpo["vel"][2][d][t] = QInt(0)
          /\ adcpo["vel"][3][d][t] = QInt(0))
           => (/\ adcpo'["vel"][1][d][t] = QInt(0)
               /\ adcpo'["vel"][2][d][t] = QInt(-1)
               /\ adcpo'["vel"][3][d][t] = QInt(0))

\* C9 as claimed: for heading 90, pitch 0 and roll 0 the matrix a forward
\* inst2earth builds is [[0,1,0],[-1,0,0],[0,0,1]] and the call takes
\* velocity (1,0,0) to (0,-1,0), whatever the record's model and mount.
C9_ScenarioEveryRecord ==
  [][ForwardInst2Earth =>
       \E rotmat \in {inst2earth_rotmat(adcpo'["orient"], adcpo["props"], adcpo["config"])} :
         \A t \in TimeIdx : ScenarioAt(t) => ScenarioHolds(rotmat, t)]_vars

\* The call adds pi to the roll: a model other than the signature, mounted
\* 'up', and not ship data with use_pitchroll = 'yes' (whose roll is set to
\* zero afterwards).
UpMountRoll ==
  /\ ~is_signature(adcpo["props"])
  /\ adcpo["config"]["orientation"] = "up"
  /\ ~(CoordSys = "ship" /\ adcpo["config"]["use_pitchroll"] = "yes")

\* C9, amended: the same for the records to whose roll the call does not
\* add pi.
C9_ScenarioWithoutUpMountRoll ==
  [][(ForwardInst2Earth /\ ~UpMountRoll) =>
       \E rotmat \in {inst2earth_rotmat(adcpo'["orient"], adcpo["props"], adcpo["config"])} :
         \A t \in TimeIdx : ScenarioAt(t) => ScenarioHolds(rotmat, t)]_vars

\* A forward call on a level, downward-mounted instrument heading 90 has
\* taken velocity (1,0,0) to (0,-1,0).
C9_Witness ==
  /\ Len(hist) = 1
  /\ hist[1].op = "inst2earth" /\ hist[1].result = "ok" /\ ~hist[1].reverse
  /\ CoordSys0 = "inst"
  /\ adcpo0["config"]["orientation"] = "down"
  /\ \A t \in TimeIdx :
       /\ Heading[t] = 90
       /\ adcpo0["orient"].pitch[t] = 0
       /\ adcpo0["orient"].roll[t] = 0
  /\ Vel0 = VelOnes
  /\ \A d \in BinIdx, t \in TimeIdx :
       /\ Vel[1][d][t] = QInt(0)
       /\ Vel[2][d][t] = QInt(-1)
       /\ Vel[3][d][t] = QInt(0)

\* The result inst2earth_heading owes a record: exp(-i*h), h the sensor
\* heading plus the heading offset and the declination, each where present.
HeadingOnce ==
  LET pr == adcpo0["props"]
  IN  Arr([t \in TimeIdx |->
         exp_neg_i(Heading0[t] + Get(pr, "heading_offset", 0) + Get(pr, "declination", 0))])

\* C10: whatever calls came before, inst2earth_heading returns exp(-i*h)
\* with the declination counted once in h, the same whether or not a forward
\* inst2earth has folded the declination into the heading before, and the call
\* leaves the heading series and props as they are.
C10_HeadingCountsDeclinationOnce ==
  \A k \in 1..Len(hist) :
    hist[k].op = "inst2earth_heading" => hist[k].ret = HeadingOnce

====
